---------------------------- MODULE Spec2Model ----------------------------
(***************************************************************************)
(* A model of the arbitrary-precision decimal type of decimal.go.          *)
(*                                                                         *)
(* A Decimal is the pair (integer, exponent) of the Go struct, standing    *)
(* for integer * 10^exponent.  The integer pointer may be nil (the zero    *)
(* value of the struct); the record field isNil says so.  Go strings are   *)
(* sequences of one-character strings.  Every method is an operator that   *)
(* returns the state it leaves behind, and an action applies it to the     *)
(* two Decimals x and y of the state.                                      *)
(***************************************************************************)
EXTENDS Integers, Sequences, FiniteSets, TLC

VARIABLES
    x,      \* a Decimal: the receiver of the calls
    y,      \* a Decimal: the argument of the binary calls
    last,   \* the last call: its name, the operands before it, what it returned
    text,   \* the string handed to SetString
    calls   \* the number of calls made so far

vars == <<x, y, last, text, calls>>

---------------------------------------------------------------------------
(* Bounds of the model.                                                    *)

\* The digit ceiling of Quo.  It is a package variable the caller may set
\* (decimal.go line 16 sets it to 200); the model runs with a small setting
\* so that quotients reach the ceiling within the model's integers.
MaxDecimalDigits == 3

\* Operands of the arithmetic calls: integers -MaxInteger..MaxInteger,
\* exponents -MaxExponent..MaxExponent.
MaxInteger == 6
MaxExponent == 2

\* Operands of Quo, and the most digits its long division may append.
MaxQuoInteger == 12
MaxQuoExponent == 4
MaxQuoDigits == 6

\* Operands of the rounding calls, and the precisions asked for.
MaxRoundInteger == 260
MaxRoundExponent == 3
MaxPrecision == 2

\* The longest string handed to SetString.
MaxLen == 5

\* The calls of one behaviour, and the largest significand an arithmetic
\* call may leave behind (a larger result disables the call).
MaxCalls == 3
MaxSignificand == 10000

---------------------------------------------------------------------------
(* Integers and their decimal text (math/big, strconv, strings).           *)

Abs(n) == IF n < 0 THEN -n ELSE n

Sign(n) == IF n < 0 THEN -1 ELSE IF n = 0 THEN 0 ELSE 1

RECURSIVE Pow10(_)
Pow10(n) == IF n <= 0 THEN 1 ELSE 10 * Pow10(n - 1)

\* big.Int.Quo and the remainder of big.Int.QuoRem: truncated toward zero.
QuoT(a, b) == Sign(a) * Sign(b) * (Abs(a) \div Abs(b))

RemT(a, b) == a - b * QuoT(a, b)

DigitChars == <<"0", "1", "2", "3", "4", "5", "6", "7", "8", "9">>

IsDigit(c) == \E i \in 1..10 : DigitChars[i] = c

DigitValue(c) == (CHOOSE i \in 1..10 : DigitChars[i] = c) - 1

AllDigits(s) == \A i \in 1..Len(s) : IsDigit(s[i])

RECURSIVE DigitsValue(_)
DigitsValue(s) ==
    IF s = <<>> THEN 0
    ELSE DigitsValue(SubSeq(s, 1, Len(s) - 1)) * 10 + DigitValue(s[Len(s)])

RECURSIVE NatString(_)
NatString(n) ==
    IF n < 10 THEN <<DigitChars[n + 1]>>
    ELSE NatString(n \div 10) \o <<DigitChars[(n % 10) + 1]>>

\* big.Int.String, and fmt's %d.
IntString(n) == IF n < 0 THEN <<"-">> \o NatString(-n) ELSE NatString(n)

\* An optional sign and at least one digit.
SignedDigits(s) ==
    /\ Len(s) > 0
    /\ LET body == IF s[1] \in {"-", "+"} THEN Tail(s) ELSE s
       IN  Len(body) > 0 /\ AllDigits(body)

SignedValue(s) ==
    IF s[1] = "-" THEN -DigitsValue(Tail(s))
    ELSE IF s[1] = "+" THEN DigitsValue(Tail(s))
    ELSE DigitsValue(s)

\* big.Int.SetString(s, 10): the value, or nil when s is no signed number.
BigSetString(s) ==
    IF SignedDigits(s) THEN [ok |-> TRUE, value |-> SignedValue(s)]
    ELSE [ok |-> FALSE, value |-> 0]

RECURSIVE TrimRightZeros(_)
TrimRightZeros(s) ==
    IF s # <<>> /\ s[Len(s)] = "0" THEN TrimRightZeros(SubSeq(s, 1, Len(s) - 1))
    ELSE s

\* strings.Repeat("0", n)
Zeros(n) == [i \in 1..n |-> "0"]

\* The first position of s holding a character of cs, 0 when there is none.
IndexOf(s, cs) ==
    IF \E i \in 1..Len(s) : s[i] \in cs
    THEN CHOOSE i \in 1..Len(s) : s[i] \in cs /\ \A j \in 1..(i - 1) : s[j] \notin cs
    ELSE 0

---------------------------------------------------------------------------
(* The Decimal struct.                                                     *)

Dec(i, e) == [integer |-> i, exponent |-> e, isNil |-> FALSE]

\* new(Decimal): a nil integer pointer and exponent 0.
ZeroValue == [integer |-> 0, exponent |-> 0, isNil |-> TRUE]

ensureInitialized(d) == IF d.isNil THEN Dec(0, d.exponent) ELSE d

\* _DecimalPattern: groups 1, 3 and 5 of ^([-+]?\d+)(\.(\d+))?([eE]([-+]?\d+))?$
DecimalPattern(s) ==
    LET ePos == IndexOf(s, {"e", "E"})
        mant == IF ePos = 0 THEN s ELSE SubSeq(s, 1, ePos - 1)
        g5   == IF ePos = 0 THEN <<>> ELSE SubSeq(s, ePos + 1, Len(s))
        dPos == IndexOf(mant, {"."})
        g1   == IF dPos = 0 THEN mant ELSE SubSeq(mant, 1, dPos - 1)
        g3   == IF dPos = 0 THEN <<>> ELSE SubSeq(mant, dPos + 1, Len(mant))
    IN  [ok |-> /\ SignedDigits(g1)
                /\ (dPos # 0 => Len(g3) > 0 /\ AllDigits(g3))
                /\ (ePos # 0 => SignedDigits(g5)),
         g1 |-> g1, g3 |-> g3, g5 |-> g5]

\* SetString: the receiver after the call and the success flag.
SetString(d, s) ==
    LET m        == DecimalPattern(s)
        decimals == TrimRightZeros(m.g3)
        integer  == m.g1 \o decimals
        exponent == (0 - Len(decimals))
                    + (IF Len(m.g5) > 0 THEN SignedValue(m.g5) ELSE 0)
    IN  IF ~m.ok THEN [d |-> ensureInitialized(d), ok |-> FALSE]
        ELSE [d |-> Dec(BigSetString(integer).value, exponent), ok |-> TRUE]

\* String with the zero padding of a value below 1 left out.
StringNoPadding(d) ==
    LET i == ensureInitialized(d).integer
        e == d.exponent
        str == NatString(Abs(i))
        sign == IF i < 0 THEN <<"-">> ELSE <<>>
        p == Len(str) + e
    IN  IF i = 0 THEN <<"0">>
        ELSE IF e = 0 THEN IntString(i)
        ELSE IF e > 0 THEN IntString(i) \o Zeros(e)
        ELSE IF p <= 0 THEN sign \o <<"0", ".">> \o TrimRightZeros(str)
        ELSE LET decimals == TrimRightZeros(SubSeq(str, p + 1, Len(str)))
             IN  sign \o SubSeq(str, 1, p)
                      \o (IF Len(decimals) > 0 THEN <<".">> \o decimals ELSE <<>>)

\* String: the text of the value.
String(d) ==
    LET i == ensureInitialized(d).integer
        e == d.exponent
        str == NatString(Abs(i))
        sign == IF i < 0 THEN <<"-">> ELSE <<>>
        p == Len(str) + e
    IN  IF i = 0 THEN <<"0">>
        ELSE IF e = 0 THEN IntString(i)
        ELSE IF e > 0 THEN IntString(i) \o Zeros(e)
        ELSE IF p <= 0
             THEN sign \o <<"0", ".">> \o Zeros(-p) \o TrimRightZeros(str)
        ELSE LET decimals == TrimRightZeros(SubSeq(str, p + 1, Len(str)))
             IN  sign \o SubSeq(str, 1, p)
                      \o (IF Len(decimals) > 0 THEN <<".">> \o decimals ELSE <<>>)

---------------------------------------------------------------------------
(* Comparison, addition, subtraction, multiplication, conversion.          *)

\* align, of two initialized Decimals: the receiver a and the argument b
\* after it.  diff is | |a.exponent| - |b.exponent| |, as the code has it.
align(a, b) ==
    LET diff == Abs(Abs(a.exponent) - Abs(b.exponent))
    IN  IF a.exponent = b.exponent THEN [x |-> a, y |-> b]
        ELSE IF a.exponent > b.exponent
             THEN [x |-> Dec(a.integer * Pow10(diff), b.exponent), y |-> b]
        ELSE [x |-> a, y |-> Dec(b.integer * Pow10(diff), a.exponent)]

\* a.Cmp(b): both operands after the call, and the result.
Cmp(a, b) ==
    LET al == align(ensureInitialized(a), ensureInitialized(b))
    IN  [x |-> al.x, y |-> al.y, ret |-> Sign(al.x.integer - al.y.integer)]

\* a.Add(b)
Add(a, b) ==
    LET al == align(ensureInitialized(a), ensureInitialized(b))
    IN  [x |-> Dec(al.x.integer + al.y.integer, al.x.exponent), y |-> al.y]

\* a.Sub(b)
Sub(a, b) ==
    LET al == align(ensureInitialized(a), ensureInitialized(b))
    IN  [x |-> Dec(al.x.integer - al.y.integer, al.x.exponent), y |-> al.y]

\* a.Mul(b)
Mul(a, b) ==
    LET a1 == ensureInitialized(a)
        b1 == ensureInitialized(b)
    IN  IF b1.integer = 0 THEN [x |-> Dec(0, 0), y |-> b1]
        ELSE [x |-> Dec(a1.integer * b1.integer, a1.exponent + b1.exponent),
              y |-> b1]

\* big.Int.Int64: the low 64 bits.  Every integer of the model lies within
\* the 64-bit range, where they are the integer itself.
BigInt64(n) == n

\* d.Int64(): the integer returned and the flag returned with it.
Int64(d) ==
    LET d1 == ensureInitialized(d)
    IN  IF d1.exponent = 0 THEN [ret |-> BigInt64(d1.integer), flag |-> TRUE]
        ELSE IF d1.exponent > 0
             THEN [ret |-> BigInt64(d1.integer * Pow10(d1.exponent)),
                   flag |-> TRUE]
        ELSE [ret |-> BigInt64(QuoT(d1.integer, Pow10(-d1.exponent))),
              flag |-> FALSE]

---------------------------------------------------------------------------
(* Division.                                                               *)

\* The long division loop of Quo: while the remainder r is not zero and
\* -exp is below the ceiling, one more digit of r*10 / yi goes to buf.
RECURSIVE QuoLoop(_, _, _, _, _)
QuoLoop(r, yi, exp, buf, ceiling) ==
    IF r # 0 /\ -exp < ceiling
    THEN QuoLoop(RemT(r * 10, yi), yi, exp - 1,
                 buf \o IntString(QuoT(r * 10, yi)), ceiling)
    ELSE [buf |-> buf, exp |-> exp]

\* a.Quo(b) under a digit ceiling: both operands after the call.
QuoUnder(a, b, ceiling) ==
    LET a1 == ensureInitialized(a)
        b1 == ensureInitialized(b)
    IN  IF b1.integer = 0 THEN [x |-> Dec(0, 0), y |-> b1]
        ELSE IF RemT(a1.integer, b1.integer) = 0
             THEN [x |-> Dec(QuoT(a1.integer, b1.integer),
                             a1.exponent - b1.exponent),
                   y |-> b1]
        ELSE LET sign == IF Sign(a1.integer) * Sign(b1.integer) = -1
                         THEN <<"-">> ELSE <<>>
                 xi   == Abs(a1.integer)
                 yi   == Abs(b1.integer)
                 loop == QuoLoop(RemT(xi, yi), yi, a1.exponent - b1.exponent,
                                 sign \o IntString(QuoT(xi, yi)), ceiling)
                 str  == loop.buf \o <<"e">> \o IntString(loop.exp)
             IN  [x |-> SetString(a1, str).d, y |-> b1]

\* Quo with the loop stopping one digit short of MaxDecimalDigits.
QuoOneDigitShort(a, b) == QuoUnder(a, b, MaxDecimalDigits - 1)

\* a.Quo(b)
Quo(a, b) == QuoUnder(a, b, MaxDecimalDigits)

---------------------------------------------------------------------------
(* Rounding.  Each operator gives the receiver after the call and the      *)
(* runtime fault that ended it, "none" when it returned.                   *)

\* The first test of the four rounding methods: rounding needless.
RoundingNeedless(d, prec) ==
    d.integer = 0 \/ d.exponent > 0 \/ 0 - d.exponent <= prec

\* d.RoundToNearestEven(prec)
RoundToNearestEven(d, prec) ==
    LET d1    == ensureInitialized(d)
        sign  == IF d1.integer < 0 THEN <<"-">> ELSE <<>>
        str0  == NatString(Abs(d1.integer))
        n     == 0 - d1.exponent
        str   == IF Len(str0) < n THEN Zeros(n - Len(str0) + 1) \o str0
                 ELSE str0
        part1 == SubSeq(str, 1, Len(str) + d1.exponent)
        part2 == SubSeq(str, Len(part1) + 1, Len(str))
        digit == part2[prec + 1]
        \* the case "5" with no digit behind it reads the neighbor digit
        tie   == digit = "5" /\ ~(Len(part2) > prec + 1)
        neighbor == IF prec = 0 THEN part1[Len(part1)] ELSE part2[prec]
        isRoundUp ==
            \/ digit \in {"6", "7", "8", "9"}
            \/ digit = "5" /\ Len(part2) > prec + 1
            \/ tie /\ neighbor \in {"1", "3", "5", "7", "9"}
        z     == BigSetString(sign \o part1 \o SubSeq(part2, 1, prec))
    IN  IF RoundingNeedless(d1, prec) THEN [d |-> d1, fault |-> "none"]
        \* part1[len(part1)-1:] of an empty part1
        ELSE IF tie /\ prec = 0 /\ Len(part1) = 0
             THEN [d |-> d1, fault |-> "slice bounds out of range"]
        \* z.Add on the nil that SetString returned
        ELSE IF ~z.ok /\ isRoundUp
             THEN [d |-> d1, fault |-> "nil pointer dereference"]
        \* d.integer = z with z nil
        ELSE IF ~z.ok
             THEN [d |-> [integer |-> 0, exponent |-> 0 - prec, isNil |-> TRUE],
                   fault |-> "none"]
        ELSE [d |-> Dec(z.value + (IF isRoundUp THEN Sign(d1.integer) ELSE 0),
                        0 - prec),
              fault |-> "none"]

\* d.RoundToNearestAway(prec)
RoundToNearestAway(d, prec) ==
    LET d1     == ensureInitialized(d)
        diff   == Abs(d1.exponent) - (prec + 1)
        cut    == QuoT(d1.integer, Pow10(diff))
        factor == IF Sign(cut) = -1 THEN -5 ELSE 5
    IN  IF RoundingNeedless(d1, prec) THEN [d |-> d1, fault |-> "none"]
        ELSE [d |-> Dec(QuoT(cut + factor, 10), 0 - prec), fault |-> "none"]

\* d.RoundToZero(prec)
RoundToZero(d, prec) ==
    LET d1   == ensureInitialized(d)
        diff == Abs(d1.exponent) - prec
    IN  IF RoundingNeedless(d1, prec) THEN [d |-> d1, fault |-> "none"]
        ELSE [d |-> Dec(QuoT(d1.integer, Pow10(diff)), 0 - prec),
              fault |-> "none"]

\* d.RoundAwayFromZero(prec)
RoundAwayFromZero(d, prec) ==
    LET d1   == ensureInitialized(d)
        sign == Sign(d1.integer)
        diff == Abs(d1.exponent) - prec
        q    == QuoT(d1.integer, Pow10(diff))
        r    == RemT(d1.integer, Pow10(diff))
    IN  IF RoundingNeedless(d1, prec) THEN [d |-> d1, fault |-> "none"]
        ELSE [d |-> Dec(IF r # 0 THEN q + sign ELSE q, 0 - prec),
              fault |-> "none"]

---------------------------------------------------------------------------
(* The record of the last call.                                            *)

NoCall ==
    [op |-> "none", x0 |-> ZeroValue, y0 |-> ZeroValue, prec |-> 0,
     ret |-> 0, flag |-> FALSE, fault |-> "none", str |-> <<>>]

Call(op, x0, y0) == [NoCall EXCEPT !.op = op, !.x0 = x0, !.y0 = y0]

---------------------------------------------------------------------------
(* Parsing and formatting.                                                 *)

Alphabet == {"-", "+", ".", "e", "0", "1", "5", "9"}

InputStrings == UNION {[1..n -> Alphabet] : n \in 1..MaxLen}

InitParse ==
    /\ x = ZeroValue
    /\ y = ZeroValue
    /\ last = NoCall
    /\ text \in InputStrings
    /\ calls = 0

\* x.SetString(text)
DoSetString ==
    /\ last.op = "none"
    /\ LET r == SetString(x, text)
       IN  /\ x' = r.d
           /\ last' = [Call("SetString", x, y) EXCEPT !.flag = r.ok, !.str = text]
    /\ calls' = calls + 1
    /\ UNCHANGED <<y, text>>

\* x.String(), of an x that SetString has set
DoString ==
    /\ last.op = "SetString" /\ last.flag
    /\ x' = ensureInitialized(x)
    /\ last' = [Call("String", x, y) EXCEPT !.str = String(x)]
    /\ calls' = calls + 1
    /\ UNCHANGED <<y, text>>

NextParse == DoSetString \/ DoString

SpecParse == InitParse /\ [][NextParse]_vars

---------------------------------------------------------------------------
(* Parse and String.                                                       *)

\* The canonical text of a decimal: an optional "-", integer digits without
\* superfluous leading zeros, optionally "." and fraction digits that do not
\* end in "0", no exponent marker, and "0" alone for zero.
IsCanonical(s) ==
    LET neg  == Len(s) > 0 /\ s[1] = "-"
        body == IF neg THEN Tail(s) ELSE s
        dPos == IndexOf(body, {"."})
        ip   == IF dPos = 0 THEN body ELSE SubSeq(body, 1, dPos - 1)
        fp   == IF dPos = 0 THEN <<>> ELSE SubSeq(body, dPos + 1, Len(body))
    IN  /\ Len(ip) > 0 /\ AllDigits(ip)
        /\ (Len(ip) > 1 => ip[1] # "0")
        /\ (dPos # 0 => Len(fp) > 0 /\ AllDigits(fp) /\ fp[Len(fp)] # "0")
        /\ ~(neg /\ dPos = 0 /\ ip = <<"0">>)

\* C7: for every canonical string s, Parse(s) succeeds and Parse(s).String()
\* is s again.
C7_RoundTrip ==
    /\ (last.op = "SetString" /\ IsCanonical(text)) => last.flag
    /\ (last.op = "String" /\ IsCanonical(text)) => last.str = text

\* A canonical negative value below 1 has been parsed and formatted.
C7_Witness ==
    /\ last.op = "String"
    /\ text = <<"-", "0", ".", "0", "5">>
    /\ last.str = text

---------------------------------------------------------------------------
(* Sequences of Cmp, Add, Sub, Mul and Int64 calls on x with argument y.   *)

\* A Decimal the program holds after SetString of "<i>e<e>".
Operands(maxInt, maxExp) ==
    {Dec(i, e) : i \in -maxInt..maxInt, e \in -maxExp..maxExp} \cup {ZeroValue}

\* a * b stays within the significands of the model.
MulFits(a, b) == IF b = 0 THEN TRUE ELSE Abs(a) <= MaxSignificand \div Abs(b)

\* align of a and b stays within the significands of the model.
AlignFits(a, b) ==
    LET f == Pow10(Abs(Abs(a.exponent) - Abs(b.exponent)))
    IN  MulFits(a.integer, f) /\ MulFits(b.integer, f)

Init ==
    /\ x \in Operands(MaxInteger, MaxExponent)
    /\ y \in Operands(MaxInteger, MaxExponent)
    /\ last = NoCall
    /\ text = <<>>
    /\ calls = 0

\* x.Cmp(y)
DoCmp ==
    /\ calls < MaxCalls
    /\ AlignFits(x, y)
    /\ LET r == Cmp(x, y)
       IN  /\ x' = r.x
           /\ y' = r.y
           /\ last' = [Call("Cmp", x, y) EXCEPT !.ret = r.ret]
    /\ calls' = calls + 1
    /\ UNCHANGED text

\* x.Add(y)
DoAdd ==
    /\ calls < MaxCalls
    /\ AlignFits(x, y)
    /\ LET r == Add(x, y)
       IN  /\ Abs(r.x.integer) <= MaxSignificand
           /\ x' = r.x
           /\ y' = r.y
           /\ last' = Call("Add", x, y)
    /\ calls' = calls + 1
    /\ UNCHANGED text

\* x.Sub(y)
DoSub ==
    /\ calls < MaxCalls
    /\ AlignFits(x, y)
    /\ LET r == Sub(x, y)
       IN  /\ Abs(r.x.integer) <= MaxSignificand
           /\ x' = r.x
           /\ y' = r.y
           /\ last' = Call("Sub", x, y)
    /\ calls' = calls + 1
    /\ UNCHANGED text

\* x.Mul(y)
DoMul ==
    /\ calls < MaxCalls
    /\ MulFits(x.integer, y.integer)
    /\ Abs(x.exponent + y.exponent) <= MaxExponent
    /\ LET r == Mul(x, y)
       IN  /\ x' = r.x
           /\ y' = r.y
           /\ last' = Call("Mul", x, y)
    /\ calls' = calls + 1
    /\ UNCHANGED text

\* x.Int64()
DoInt64 ==
    /\ calls < MaxCalls
    /\ LET r == Int64(x)
       IN  last' = [Call("Int64", x, y) EXCEPT !.ret = r.ret, !.flag = r.flag]
    /\ x' = ensureInitialized(x)
    /\ calls' = calls + 1
    /\ UNCHANGED <<y, text>>

Next == DoCmp \/ DoAdd \/ DoSub \/ DoMul \/ DoInt64

Spec == Init /\ [][Next]_vars

---------------------------------------------------------------------------
(* The numeric value integer * 10^exponent, and the arithmetic claims.     *)

Min(a, b) == IF a <= b THEN a ELSE b

\* a * 10^n = b, for n >= 0, without forming the product.
RECURSIVE EqScaled(_, _, _)
EqScaled(a, n, b) ==
    IF n = 0 THEN a = b
    ELSE IF a = 0 THEN b = 0
    ELSE b % 10 = 0 /\ EqScaled(a, n - 1, b \div 10)

\* Decimals a and b have the same numeric value (a nil integer is zero).
ValueEq(a, b) ==
    IF a.exponent >= b.exponent
    THEN EqScaled(a.integer, a.exponent - b.exponent, b.integer)
    ELSE EqScaled(b.integer, b.exponent - a.exponent, a.integer)

\* The significand of d rescaled to the exponent m <= d.exponent.
ScaledTo(d, m) == d.integer * Pow10(d.exponent - m)

\* -1, 0 or +1 as the numeric value of a is below, equal to or above b's.
ValueCmp(a, b) ==
    LET m == Min(a.exponent, b.exponent)
    IN  Sign(ScaledTo(a, m) - ScaledTo(b, m))

\* The numeric value of a plus that of b, as a Decimal.
ValueSum(a, b) ==
    LET m == Min(a.exponent, b.exponent)
    IN  Dec(ScaledTo(a, m) + ScaledTo(b, m), m)

\* C1: x.Cmp(y) returns -1, 0 or +1 as the numeric value of x is below,
\* equal to or above that of y, whatever the two exponents are.
C1_CmpComparesValues ==
    last.op = "Cmp" => last.ret = ValueCmp(last.x0, last.y0)

\* C2: x.Add(y) leaves x with the numeric value of x plus that of y before
\* the call.
C2_AddIsSum ==
    last.op = "Add" => ValueEq(x, ValueSum(last.x0, last.y0))

\* C8: x.Mul(y) leaves significand 0 and exponent 0 when either significand
\* is zero, and otherwise the product of the significands with the sum of
\* the exponents.
C8_MulZeroOrProduct ==
    last.op = "Mul" =>
        IF last.x0.integer = 0 \/ last.y0.integer = 0
        THEN x = Dec(0, 0)
        ELSE x = Dec(last.x0.integer * last.y0.integer,
                     last.x0.exponent + last.y0.exponent)

\* C9: the flag d.Int64() returns is true exactly when the integer it
\* returns equals the numeric value of d.
C9_Int64FlagIsExactness ==
    last.op = "Int64" => (last.flag <=> ValueEq(Dec(last.ret, 0), last.x0))

\* C10: after the align step of Cmp, Add or Sub both operands carry the
\* smaller of the two exponents they had, the argument y keeps its numeric
\* value, and under Cmp the receiver x keeps its numeric value too.
C10_AlignPreservesValues ==
    last.op \in {"Cmp", "Add", "Sub"} =>
        /\ x.exponent = Min(last.x0.exponent, last.y0.exponent)
        /\ y.exponent = Min(last.x0.exponent, last.y0.exponent)
        /\ ValueEq(y, last.y0)
        /\ (last.op = "Cmp" => ValueEq(x, last.x0))

---------------------------------------------------------------------------
(* One Quo call on operands drawn at the start.                            *)

InitQuo ==
    /\ x \in Operands(MaxQuoInteger, MaxQuoExponent)
    /\ y \in Operands(MaxQuoInteger, MaxQuoExponent)
    /\ last = NoCall
    /\ text = <<>>
    /\ calls = 0

\* x.Quo(y).  The long division appends at most
\* x.exponent - y.exponent + MaxDecimalDigits digits; a call that could
\* append more than MaxQuoDigits is left out.
DoQuo ==
    /\ last.op = "none"
    /\ x.exponent - y.exponent + MaxDecimalDigits <= MaxQuoDigits
    /\ LET r == Quo(x, y)
       IN  /\ x' = r.x
           /\ y' = r.y
           /\ last' = Call("Quo", x, y)
    /\ calls' = calls + 1
    /\ UNCHANGED text

NextQuo == DoQuo

SpecQuo == InitQuo /\ [][NextQuo]_vars

\* n with its factors 2 and 5 removed, for n > 0.
RECURSIVE StripTwosFives(_)
StripTwosFives(n) ==
    IF n % 2 = 0 THEN StripTwosFives(n \div 2)
    ELSE IF n % 5 = 0 THEN StripTwosFives(n \div 5)
    ELSE n

\* a / b, for b # 0, is a decimal: it has finitely many digits.
IsTerminating(a, b) == a % StripTwosFives(Abs(b)) = 0

\* The least k with a * 10^k a multiple of b, when a / b is a decimal.
RECURSIVE MinShift(_, _)
MinShift(a, b) == IF a % b = 0 THEN 0 ELSE 1 + MinShift(a * 10, b)

\* The decimal q with q * b = a, when there is one.
ExactQuotient(a, b) ==
    LET k == MinShift(a.integer, Abs(b.integer))
    IN  Dec((a.integer * Pow10(k) * Sign(b.integer)) \div Abs(b.integer),
            a.exponent - b.exponent - k)

\* The number of trailing zero digits of n # 0.
RECURSIVE TrailingZeros(_)
TrailingZeros(n) == IF n % 10 = 0 THEN 1 + TrailingZeros(n \div 10) ELSE 0

\* The number of digits q has after the decimal point, trailing zeros
\* not counted.
FractionDigits(q) ==
    IF q.integer = 0 THEN 0
    ELSE LET n == (0 - q.exponent) - TrailingZeros(q.integer)
         IN  IF n > 0 THEN n ELSE 0

\* The operands of the last call admit a decimal q with q * y = x.
HasExactQuotient ==
    /\ last.op = "Quo"
    /\ last.y0.integer # 0
    /\ IsTerminating(last.x0.integer, last.y0.integer)

\* C5, as stated: whenever a has the value q * b for a decimal q and b # 0,
\* a.Quo(b) leaves the value q, however many fraction digits q has.
C5_ExactRoundTripAnyDigits ==
    HasExactQuotient => ValueEq(x, ExactQuotient(last.x0, last.y0))

\* C5, amended: whenever a has the value q * b for a decimal q with at most
\* MaxDecimalDigits digits after the decimal point and b # 0, a.Quo(b)
\* leaves the value q.
C5_ExactRoundTripWithinCeiling ==
    (/\ HasExactQuotient
     /\ FractionDigits(ExactQuotient(last.x0, last.y0)) <= MaxDecimalDigits)
        => ValueEq(x, ExactQuotient(last.x0, last.y0))

\* The long division has run to a zero remainder and has produced a
\* quotient with exactly MaxDecimalDigits digits after the point.
C5_Witness ==
    /\ HasExactQuotient
    /\ RemT(last.x0.integer, last.y0.integer) # 0
    /\ FractionDigits(ExactQuotient(last.x0, last.y0)) = MaxDecimalDigits
    /\ x.integer # 0
    /\ ValueEq(x, ExactQuotient(last.x0, last.y0))

\* C6: after x.Quo(y) with y # 0 and x's significand no multiple of y's,
\* the result has at most MaxDecimalDigits digits after the decimal point.
C6_QuoWithinCeiling ==
    (/\ last.op = "Quo"
     /\ last.y0.integer # 0
     /\ RemT(last.x0.integer, last.y0.integer) # 0)
        => 0 - x.exponent <= MaxDecimalDigits

---------------------------------------------------------------------------
(* One rounding call on an operand drawn at the start.                     *)

InitRound ==
    /\ x \in Operands(MaxRoundInteger, MaxRoundExponent)
    /\ y = ZeroValue
    /\ last = NoCall
    /\ text = <<>>
    /\ calls = 0

\* The state after a rounding call that left r.
Rounded(op, prec, r) ==
    /\ x' = r.d
    /\ last' = [Call(op, x, y) EXCEPT !.prec = prec, !.fault = r.fault]
    /\ calls' = calls + 1
    /\ UNCHANGED <<y, text>>

\* x.RoundToNearestEven(prec), x.Round(prec)
DoRoundToNearestEven ==
    /\ last.op = "none"
    /\ \E prec \in 0..MaxPrecision :
          Rounded("RoundToNearestEven", prec, RoundToNearestEven(x, prec))

\* x.RoundToNearestAway(prec)
DoRoundToNearestAway ==
    /\ last.op = "none"
    /\ \E prec \in 0..MaxPrecision :
          Rounded("RoundToNearestAway", prec, RoundToNearestAway(x, prec))

\* x.RoundToZero(prec), x.Truncate(prec), x.RoundDown(prec)
DoRoundToZero ==
    /\ last.op = "none"
    /\ \E prec \in 0..MaxPrecision :
          Rounded("RoundToZero", prec, RoundToZero(x, prec))

\* x.RoundAwayFromZero(prec), x.RoundUp(prec)
DoRoundAwayFromZero ==
    /\ last.op = "none"
    /\ \E prec \in 0..MaxPrecision :
          Rounded("RoundAwayFromZero", prec, RoundAwayFromZero(x, prec))

NextRound ==
    \/ DoRoundToNearestEven
    \/ DoRoundToNearestAway
    \/ DoRoundToZero
    \/ DoRoundAwayFromZero

SpecRound == InitRound /\ [][NextRound]_vars

\* The multiple of 10^-prec nearest to d, ties to the even one, for a d
\* with more than prec digits after the point.
NearestEven(d, prec) ==
    LET unit == Pow10((0 - d.exponent) - prec)
        q    == Abs(d.integer) \div unit
        r    == Abs(d.integer) % unit
        up   == 2 * r > unit \/ (2 * r = unit /\ q % 2 = 1)
    IN  Dec(Sign(d.integer) * (IF up THEN q + 1 ELSE q), 0 - prec)

\* C3: RoundToNearestEven(precision) of a non-zero Decimal with more than
\* precision digits after the point returns and leaves the multiple of
\* 10^-precision nearest to the value, an exact half going to the even one.
C3_NearestEvenIsNearest ==
    (/\ last.op = "RoundToNearestEven"
     /\ last.x0.integer # 0
     /\ 0 - last.x0.exponent > last.prec)
        => /\ last.fault = "none"
           /\ ValueEq(x, NearestEven(last.x0, last.prec))

\* C4: each of the four rounding calls, for every Decimal and every
\* precision, returns without a runtime fault.
C4_RoundingNeverFaults ==
    last.op \in {"RoundToNearestEven", "RoundToNearestAway", "RoundToZero",
                 "RoundAwayFromZero"}
        => last.fault = "none"

=============================================================================
